---- MODULE Spec2Model ----
(***************************************************************************)
(* Action-dispatch and domain-state engine of action-llm:                  *)
(*   DomainRegistry  (lib/registry)      validate / execute / initial state *)
(*   team-management reducer             the one registered domain          *)
(*   StateManager    (lib/state)         state blob + action log blob       *)
(*   ActionDispatcher (lib/dispatcher)   validate, load, reduce, persist    *)
(* The repository carries two source trees.  The root tree's StateManager   *)
(* has a local-filesystem branch and a GitHub branch; the src/ tree's       *)
(* StateManager is local only.  The variable backend says which one runs.   *)
(***************************************************************************)
EXTENDS Integers, Sequences, FiniteSets, TLC

\* ------------------------------------------------------------------ bounds
MaxDispatch == 3
MaxFaults == 1
MaxEvents == 3

\* ------------------------------------------------------------- value space
Undefined == "<undefined>"
NumberVal == "<number>"
NonStrings == {Undefined, NumberVal}

Users == {"alice", "bob"}
TeamNames == {"frontend"}
TeamDomain == "team-management"
DomainNames == {TeamDomain, "billing"}
Procs == {1, 2}

\* src/ tree (local, sequential writes); root tree local (Promise.all);
\* root tree with a GitHub client set.
Backends == {"src_local", "root_local", "root_github"}

ADD_TO_TEAM == "ADD_TO_TEAM"
REMOVE_FROM_TEAM == "REMOVE_FROM_TEAM"
CREATE_TEAM == "CREATE_TEAM"
UPDATE_TEAM_DESCRIPTION == "UPDATE_TEAM_DESCRIPTION"
TeamActionTypes == {ADD_TO_TEAM, REMOVE_FROM_TEAM, CREATE_TEAM, UPDATE_TEAM_DESCRIPTION}

\* A payload always carries the four keys; a key the JSON object lacks holds
\* Undefined (JSON.stringify drops such keys, JSON.parse leaves them absent).
Payload(u, t, d, o) == [username |-> u, teamName |-> t, description |-> d, owner |-> o]

MkAction(dom, typ, pl) == [domain |-> dom, type |-> typ, payload |-> pl]

MkContext(u, ts) == [username |-> u, timestamp |-> ts]

\* ------------------------------------------------------ team-management
EmptyTeams == [t \in {} |-> 0]

initialState == [schemaVersion |-> 1, data |-> [teams |-> EmptyTeams]]

NoState == [schemaVersion |-> 0, data |-> [teams |-> EmptyTeams]]

Returned(s) == [ok |-> TRUE, val |-> s, err |-> ""]

Thrown(msg) == [ok |-> FALSE, val |-> NoState, err |-> msg]

includes_never(members, u) == FALSE

includes(members, u) == \E i \in 1..Len(members) : members[i] = u

filterOut_swapRemove(members, u) ==
  LET i == CHOOSE k \in 1..Len(members) : members[k] = u
  IN  [k \in 1..(Len(members) - 1) |-> IF k = i THEN members[Len(members)] ELSE members[k]]

\* members.filter(member => member !== username)
filterOut(members, u) == SelectSeq(members, LAMBDA m : m # u)

\* Keys that every plain object inherits from Object.prototype; "constructor"
\* stands for them all ("toString", "valueOf", "hasOwnProperty", ...).  The
\* teams object is a plain object: an object literal or the result of JSON.parse.
InheritedKeys == {"constructor"}

ownTeam(state, t) == t \in DOMAIN state.data.teams

\* state.data.teams[teamName] is truthy: the property lookup finds an own key
\* or, failing that, an inherited one
hasTeam(state, t) == ownTeam(state, t) \/ t \in InheritedKeys

\* state.data.teams[teamName].members is an array (undefined on an inherited
\* value and on a team object that lacks the property)
hasMembers(state, t) == ownTeam(state, t) /\ "members" \in DOMAIN state.data.teams[t]

\* what reading .includes of undefined throws
MembersTypeError == "TypeError: Cannot read properties of undefined (reading 'includes')"

spreadTeam_fresh(state, t, key, value) == [k \in {key} |-> value]

\* { ...state.data.teams[teamName], [key]: value }: the own properties of the
\* value found (an inherited function has none), and the one given
spreadTeam(state, t, key, value) ==
  LET own == IF ownTeam(state, t) THEN DOMAIN state.data.teams[t] ELSE {}
  IN  [k \in own \cup {key} |-> IF k = key THEN value ELSE state.data.teams[t][k]]

\* { ...state, data: { ...state.data, teams: { ...teams, [t]: team } } }
withTeam(state, t, team) ==
  [state EXCEPT !.data.teams =
     [x \in (DOMAIN state.data.teams) \cup {t} |->
        IF x = t THEN team ELSE state.data.teams[x]]]

actualOwner_given(owner, context) == owner

\* owner || context.username
actualOwner(owner, context) ==
  IF owner = Undefined \/ owner = "" THEN context.username ELSE owner

reduceAdd_append(state, action, context) ==
  LET u == action.payload.username
      t == action.payload.teamName
  IN  IF ~hasTeam(state, t) THEN Thrown("Team " \o t \o " does not exist")
      ELSE IF ~hasMembers(state, t) THEN Thrown(MembersTypeError)
      ELSE Returned(withTeam(state, t,
             spreadTeam(state, t, "members", Append(state.data.teams[t].members, u))))

reduceAdd(state, action, context) ==
  LET u == action.payload.username
      t == action.payload.teamName
  IN  IF ~hasTeam(state, t) THEN Thrown("Team " \o t \o " does not exist")
      ELSE IF ~hasMembers(state, t) THEN Thrown(MembersTypeError)
      ELSE IF includes(state.data.teams[t].members, u) THEN Returned(state)
      ELSE Returned(withTeam(state, t,
             spreadTeam(state, t, "members", Append(state.data.teams[t].members, u))))

reduceRemove(state, action, context) ==
  LET u == action.payload.username
      t == action.payload.teamName
  IN  IF ~hasTeam(state, t) THEN Thrown("Team " \o t \o " does not exist")
      ELSE IF ~hasMembers(state, t) THEN Thrown(MembersTypeError)
      ELSE IF ~includes(state.data.teams[t].members, u) THEN Returned(state)
      ELSE Returned(withTeam(state, t,
             spreadTeam(state, t, "members", filterOut(state.data.teams[t].members, u))))

reduceCreate_overwrite(state, action, context) ==
  LET o == actualOwner(action.payload.owner, context)
  IN  Returned(withTeam(state, action.payload.teamName,
        [description |-> action.payload.description, owner |-> o,
         members |-> <<o>>, createdAt |-> context.timestamp]))

reduceCreate(state, action, context) ==
  LET t == action.payload.teamName
      o == actualOwner(action.payload.owner, context)
  IN  IF hasTeam(state, t) THEN Thrown("Team " \o t \o " already exists")
      ELSE Returned(withTeam(state, t,
             [description |-> action.payload.description,
              owner |-> o,
              members |-> <<o>>,
              createdAt |-> context.timestamp]))

reduceUpdate(state, action, context) ==
  LET t == action.payload.teamName
  IN  IF ~hasTeam(state, t) THEN Thrown("Team " \o t \o " does not exist")
      ELSE Returned(withTeam(state, t,
             spreadTeam(state, t, "description", action.payload.description)))

reduce(state, action, context) ==
  CASE action.type = ADD_TO_TEAM -> reduceAdd(state, action, context)
    [] action.type = REMOVE_FROM_TEAM -> reduceRemove(state, action, context)
    [] action.type = CREATE_TEAM -> reduceCreate(state, action, context)
    [] action.type = UPDATE_TEAM_DESCRIPTION -> reduceUpdate(state, action, context)
    [] OTHER -> Returned(state)

isString(v) == v \notin NonStrings

UnknownTypeError == "ZodError: invalid discriminator value at type"

TeamActionSchema_anyType(action) ==
  IF action.domain # TeamDomain THEN "ZodError: invalid literal at domain" ELSE "true"

\* TeamActionSchema.parse(action): "true" when it parses, else the ZodError text
TeamActionSchema(action) ==
  LET p == action.payload
  IN  IF action.type \notin TeamActionTypes THEN UnknownTypeError
      ELSE IF action.domain # TeamDomain THEN "ZodError: invalid literal at domain"
      ELSE IF action.type \in {ADD_TO_TEAM, REMOVE_FROM_TEAM}
              /\ ~(isString(p.username) /\ isString(p.teamName))
           THEN "ZodError: expected string in payload"
      ELSE IF action.type = CREATE_TEAM
              /\ ~(isString(p.teamName) /\ isString(p.description)
                   /\ (isString(p.owner) \/ p.owner = Undefined))
           THEN "ZodError: expected string in payload"
      ELSE IF action.type = UPDATE_TEAM_DESCRIPTION
              /\ ~(isString(p.teamName) /\ isString(p.description))
           THEN "ZodError: expected string in payload"
      ELSE "true"


\* -------------------------------------------------------- content store
\* state.json: absent, or the JSON text of one state document
AbsentBlob == [kind |-> "absent", doc |-> NoState]

\* the properties of a team JSON.stringify writes: it leaves out a property
\* whose value is undefined
written(team) ==
  {k \in DOMAIN team : k \in {"description", "owner"} => team[k] # Undefined}

\* JSON.stringify(state, null, 2); the blob is modelled by the document
\* JSON.parse makes of the text
stringifyState(state) ==
  [kind |-> "json",
   doc |-> [state EXCEPT !.data.teams =
              [t \in DOMAIN state.data.teams |->
                 [k \in written(state.data.teams[t]) |-> state.data.teams[t][k]]]]]

\* actions.jsonl is a text: a sequence of tokens, each the compact JSON of one
\* log entry or a newline character
NoEntry == [action |-> MkAction("", "", Payload(Undefined, Undefined, Undefined, Undefined)),
            timestamp |-> 0, username |-> ""]

NL == [kind |-> "nl", entry |-> NoEntry]

\* JSON.stringify(logEntry)
stringifyEntry(e) == [kind |-> "json", entry |-> e]

AbsentLog == [exists |-> FALSE, text |-> <<>>]

logEntry(action, context) ==
  [action |-> action, timestamp |-> context.timestamp, username |-> context.username]

appendLine_replace(currentLog, e) == <<stringifyEntry(e), NL>>

\* currentLog + JSON.stringify(logEntry) + '\n'
appendLine(currentLog, e) == currentLog \o <<stringifyEntry(e), NL>>

\* content.split('\n'): the segments between newline tokens
RECURSIVE splitLines(_, _)
splitLines(text, seg) ==
  IF text = <<>> THEN <<seg>>
  ELSE IF Head(text) = NL THEN <<seg>> \o splitLines(Tail(text), <<>>)
  ELSE splitLines(Tail(text), Append(seg, Head(text)))

RECURSIVE reverse(_)
reverse(s) == IF s = <<>> THEN <<>> ELSE Append(reverse(Tail(s)), Head(s))

\* .slice(0, limit)
slice(s, limit) == SubSeq(s, 1, IF limit < Len(s) THEN limit ELSE Len(s))

\* split, drop blank lines, JSON.parse each line, reverse, slice
parseLog(text, limit) ==
  LET lines == SelectSeq(splitLines(text, <<>>), LAMBDA l : l # <<>>)
      entries == [i \in 1..Len(lines) |-> lines[i][1].entry]
  IN  slice(reverse(entries), limit)

\* What a read of a blob can answer: its content, not-found, or a fault
\* (an I/O or permission error, a non-404 API error, text that is not JSON).
NormalReads(exists) == IF exists THEN {"ok"} ELSE {"notfound"}

FaultyReads(exists) == IF exists THEN {"eio", "badjson"} ELSE {"eio"}


\* ------------------------------------------------------------ the state
VARIABLES
  backend,     \* which StateManager runs, fixed at construction
  domains,     \* DomainRegistry.domains: name -> registered reducer module
  stateBlob,   \* '<domain>/state.json' per domain
  logBlob,     \* '<domain>/actions.jsonl' per domain
  pc,          \* position of each dispatch call
  act,         \* its action argument
  ctx,         \* its context argument
  cur,         \* currentState as loaded
  new,         \* newState as reduced
  updatedLog,  \* saveState's updatedLog
  sha,         \* updateFile's sha of the blob it is about to replace
  pending,     \* writes of Promise.all not yet settled
  failed,      \* the error Promise.all rejected with, "" while none
  result,      \* what the dispatch call gave its caller
  io,          \* blob reads, blob writes and reducer calls of this dispatch
  preState,    \* stateBlob when this dispatch was called
  preLog,      \* logBlob when this dispatch was called
  started,     \* dispatch calls so far (also the clock of context.timestamp)
  faults,      \* storage faults and crashes so far
  okLog,       \* per domain, the entries of the dispatches that returned success
  registryInitial, \* the initialState object of the registered reducer module
  held,        \* a caller holds the value getInitialState returned to it
  got,         \* what the last direct call of getInitialState gave
  call,        \* the (state, action, context) of a direct call of reduce
  input,       \* the object passed as state, as it is now
  out,         \* what that call gave
  again,       \* what a second call with the same arguments gave
  chained,     \* what a call on the returned state, same action and context, gave
  step,        \* how far the direct calls of reduce have come
  gotLog,      \* what the last direct call of getActionLog gave
  validated, \* what the last direct call of validateAction gave
  lastReg, \* the last call of registerDomain: its arguments and the map before it
  asked, \* the last direct getInitialState or executeAction: the record getDomain gave and the answer
  variant, \* which entry point runs: confirmation by reaction, or by approval comment
  issueBody, \* the text of the issue, once it is opened
  comments, \* the comments of the issue, oldest first
  dispatches, \* the calls of dispatch the handlers have made
  events  \* how many events have been handled

store == <<stateBlob, logBlob>>
locals == <<act, ctx, cur, new, updatedLog, sha, pending, failed, io, preState, preLog>>
\* what a dispatch leaves alone: the registry's callers and direct reducer calls
\* the callers of the other operations
eventVars == <<variant, issueBody, comments, dispatches, events>>
others == <<gotLog, validated, lastReg, asked, variant, issueBody, comments, dispatches, events>>
aside == <<registryInitial, held, got, call, input, out, again, chained, step, others>>
vars == <<backend, domains, stateBlob, logBlob, pc, act, ctx, cur, new, updatedLog,
          sha, pending, failed, result, io, preState, preLog, started, faults, okLog,
          registryInitial, held, got, call, input, out, again, chained, step,
          gotLog, validated, lastReg, asked, variant, issueBody, comments, dispatches, events>>

\* ------------------------------------------------------- DomainRegistry
NoDomain == "none"
teamManagementReducer == "team-management/reducer"

\* the same domain as the module under src/domains: the same actionSchema and
\* reduce, and an initialState object of its own
teamManagementDomain == "src/domains/team-management"

Records == {teamManagementReducer, teamManagementDomain}

hasDomain_noCheck(name) == TRUE

hasDomain(name) == domains[name] # NoDomain

DomainNotFound(name) == "Domain " \o name \o " not found"

validateAction_throwsZod(action) ==
  IF ~hasDomain(action.domain)
  THEN [threw |-> TRUE, val |-> "", err |-> DomainNotFound(action.domain)]
  ELSE IF TeamActionSchema(action) # "true"
  THEN [threw |-> TRUE, val |-> "", err |-> TeamActionSchema(action)]
  ELSE [threw |-> FALSE, val |-> "true", err |-> ""]

\* true, a ZodError, or a throw
validateAction(action) ==
  IF ~hasDomain(action.domain)
  THEN [threw |-> TRUE, val |-> "", err |-> DomainNotFound(action.domain)]
  ELSE [threw |-> FALSE, val |-> TeamActionSchema(action), err |-> ""]

executeAction_wrap(action, state, context) ==
  IF ~hasDomain(action.domain) THEN Thrown(DomainNotFound(action.domain))
  ELSE LET r == reduce(state, action, context)
       IN  IF r.ok THEN r ELSE Thrown("Failed to execute action")

\* domain.reduce(state, action, context): what it returns is returned, what it
\* throws goes on to the caller
executeAction(action, state, context) ==
  IF ~hasDomain(action.domain) THEN Thrown(DomainNotFound(action.domain))
  ELSE reduce(state, action, context)

\* domain.initialState of a record.  registryInitial is the object of
\* team-management/reducer, the one callers of this model write into; the
\* object of the other module is as declared.
initialStateOf(domainReducer) ==
  IF domainReducer = teamManagementReducer THEN registryInitial ELSE initialState

\* return domain.initialState: the module's own object, as it is now
getInitialState(name) ==
  IF ~hasDomain(name) THEN Thrown(DomainNotFound(name))
  ELSE Returned(initialStateOf(domains[name]))

\* --------------------------------------------------------- StateManager
readAndParse_initial(domain, outcome, blob) ==
  CASE outcome \in {"ok", "notfound"} -> getInitialState(domain)
    [] outcome = "eio" -> Thrown("EIO: read failed")
    [] outcome = "badjson" -> Thrown("SyntaxError: Unexpected token in JSON")

\* readFile / getFileContent followed by JSON.parse
readAndParse(domain, outcome, blob) ==
  CASE outcome = "ok" -> Returned(blob.doc)
    [] outcome = "notfound" -> getInitialState(domain)
    [] outcome = "eio" -> Thrown("EIO: read failed")
    [] outcome = "badjson" -> Thrown("SyntaxError: Unexpected token in JSON")

\* src/ tree: only ENOENT gives the initial state, anything else is rethrown
getStateStrict(domain, outcome, blob) == readAndParse(domain, outcome, blob)

\* root tree: the outer catch answers every error with the initial state
getStateLenient(domain, outcome, blob) ==
  LET r == readAndParse(domain, outcome, blob)
  IN  IF r.ok THEN r ELSE getInitialState(domain)

getState(domain, outcome, blob) ==
  IF backend = "src_local" THEN getStateStrict(domain, outcome, blob)
  ELSE getStateLenient(domain, outcome, blob)

\* getActionLog(domain, limit) when the read of the log blob answered outcome
getActionLog(blob, limit, outcome) ==
  CASE outcome = "ok" -> [ok |-> TRUE, val |-> parseLog(blob.text, limit)]
    [] outcome = "notfound" -> [ok |-> TRUE, val |-> <<>>]
    [] OTHER -> IF backend = "src_local" THEN [ok |-> FALSE, val |-> <<>>]
                ELSE [ok |-> TRUE, val |-> <<>>]

\* fs.writeFile(statePath, JSON.stringify(state, null, 2)) / updateFile(statePath, ...)
writeStateFile(domain, state) == [stateBlob EXCEPT ![domain] = stringifyState(state)]

writeLogFile_oneLog(domain, text) ==
  [d \in DomainNames |-> [exists |-> TRUE, text |-> text]]

\* fs.writeFile(logPath, updatedLog) / updateFile(logPath, updatedLog, ...)
writeLogFile(domain, text) == [logBlob EXCEPT ![domain] = [exists |-> TRUE, text |-> text]]

\* createOrUpdateFileContents takes the write when the sha it is given names
\* the blob now stored (no sha for a blob that does not exist)
shaMatches(given, stored) == given = stored


\* ----------------------------------------------------- ActionDispatcher
resultNone == [status |-> "none", error |-> ""]
resultOk == [status |-> "ok", error |-> ""]
resultFail(msg) == [status |-> "fail", error |-> msg]

dispatchCatch_rethrow(err) == [status |-> "raised", error |-> err]

\* the catch block of dispatch: any throw becomes { success: false, error }
dispatchCatch(err) == resultFail(err)

\* loaded: what the read of getState answered
noIo == [reads |-> 0, stateWrites |-> 0, logWrites |-> 0, reduces |-> 0, loaded |-> ""]
noSha == [state |-> AbsentBlob, log |-> AbsentLog]

\* the actions and callers the dispatcher is driven with
DispatchActions ==
  { MkAction(TeamDomain, ty, Payload(u, t, Undefined, Undefined)) :
      ty \in {ADD_TO_TEAM, REMOVE_FROM_TEAM}, u \in Users, t \in TeamNames }
  \cup { MkAction(TeamDomain, CREATE_TEAM, Payload(Undefined, t, "FE team", o)) :
      t \in TeamNames, o \in {Undefined, "bob"} }
  \cup { MkAction(TeamDomain, UPDATE_TEAM_DESCRIPTION, Payload(Undefined, t, "Frontend", Undefined)) :
      t \in TeamNames }
  \cup { MkAction(TeamDomain, "RENAME_TEAM", Payload(Undefined, "frontend", Undefined, Undefined)),
         MkAction(TeamDomain, ADD_TO_TEAM, Payload(NumberVal, "frontend", Undefined, Undefined)),
         MkAction("billing", ADD_TO_TEAM, Payload("bob", "frontend", Undefined, Undefined)) }

NoOutcome == [ok |-> FALSE, val |-> NoState, err |-> "<not called>"]
NoLogCall == [called |-> FALSE, limit |-> 0, outcome |-> "", before |-> AbsentLog,
              ok |-> FALSE, val |-> <<>>]

NoValidation == [called |-> FALSE, action |-> NoEntry.action, registered |-> FALSE,
                 threw |-> FALSE, val |-> "", err |-> ""]

NoReg == [called |-> FALSE, name |-> "", record |-> "none",
          before |-> [n \in DomainNames |-> "none"]]

NoAsk == [called |-> FALSE, op |-> "", name |-> "", record |-> "none", answer |-> NoOutcome]

\* a text that is no text: the issue is not opened
NotOpened == [form |-> "none", json |-> [tag |-> "none", action |-> NoEntry.action],
              approves |-> FALSE, intent |-> [tag |-> "none", action |-> NoEntry.action]]

\* no event has been handled
NoEvents ==
  /\ issueBody = NotOpened
  /\ comments = <<>>
  /\ dispatches = <<>>
  /\ events = 0

\* nobody has called the registry or the log directly
NoCalls ==
  /\ gotLog = NoLogCall
  /\ validated = NoValidation
  /\ lastReg = NoReg
  /\ asked = NoAsk

\* nobody has called the other operations
NoOthers ==
  /\ NoCalls
  /\ variant = "reaction"
  /\ NoEvents

NoCall == [state |-> NoState, action |-> NoEntry.action, context |-> MkContext("", 0)]

\* the entry point has registered the team-management reducer
Registered ==
  domains = [n \in DomainNames |-> IF n = TeamDomain THEN teamManagementReducer ELSE NoDomain]

\* nobody has called getInitialState or reduce directly
NoDirectCalls ==
  /\ registryInitial = initialState
  /\ held = FALSE
  /\ got = NoOutcome
  /\ call = NoCall
  /\ input = NoState
  /\ out = NoOutcome
  /\ again = NoOutcome
  /\ chained = NoOutcome
  /\ step = "none"

NothingAside ==
  /\ NoDirectCalls
  /\ NoOthers

\* nothing is stored
EmptyStore ==
  /\ stateBlob = [n \in DomainNames |-> AbsentBlob]
  /\ logBlob = [n \in DomainNames |-> AbsentLog]

\* no dispatch called yet
NoDispatch ==
  /\ pc = [p \in Procs |-> "idle"]
  /\ act = [p \in Procs |-> NoEntry.action]
  /\ ctx = [p \in Procs |-> MkContext("", 0)]
  /\ cur = [p \in Procs |-> NoState]
  /\ new = [p \in Procs |-> NoState]
  /\ updatedLog = [p \in Procs |-> <<>>]
  /\ sha = [p \in Procs |-> noSha]
  /\ pending = [p \in Procs |-> {}]
  /\ failed = [p \in Procs |-> ""]
  /\ result = [p \in Procs |-> resultNone]
  /\ io = [p \in Procs |-> noIo]
  /\ preState = [p \in Procs |-> stateBlob]
  /\ preLog = [p \in Procs |-> logBlob]
  /\ started = 0
  /\ faults = 0
  /\ okLog = [n \in DomainNames |-> <<>>]

\* an empty store and no dispatch called yet
NothingDispatched == EmptyStore /\ NoDispatch

Init ==
  /\ backend \in Backends
  /\ Registered
  /\ NothingDispatched
  /\ NothingAside

\* dispatch returns: res goes to the caller
Finish(p, res) ==
  /\ pc' = [pc EXCEPT ![p] = "idle"]
  /\ result' = [result EXCEPT ![p] = res]
  /\ okLog' = IF res.status = "ok"
              THEN [okLog EXCEPT ![act[p].domain] = Append(@, logEntry(act[p], ctx[p]))]
              ELSE okLog

Goto(p, label) ==
  /\ pc' = [pc EXCEPT ![p] = label]
  /\ UNCHANGED <<result, okLog>>

\* a read either answers normally or, within the fault budget, fails
ReadAnswers(outcome, exists) ==
  \/ /\ outcome \in NormalReads(exists)
     /\ faults' = faults
  \/ /\ outcome \in FaultyReads(exists)
     /\ faults < MaxFaults
     /\ faults' = faults + 1

\* a write either goes through or, within the fault budget, fails
WriteAnswers(okw) ==
  \/ /\ okw
     /\ faults' = faults
  \/ /\ ~okw
     /\ faults < MaxFaults
     /\ faults' = faults + 1

afterValidate_ignored(v) == IF ~v.threw THEN "read_state" ELSE "idle"

\* if (validationResult !== true) return { success: false, ... }
afterValidate(v) == IF ~v.threw /\ v.val = "true" THEN "read_state" ELSE "idle"

\* dispatch(action, context) up to its first await: validateAction
Call(p, a, u) ==
  /\ pc[p] = "idle"
  /\ started' = started + 1
  /\ act' = [act EXCEPT ![p] = a]
  /\ ctx' = [ctx EXCEPT ![p] = MkContext(u, started + 1)]
  /\ preState' = [preState EXCEPT ![p] = stateBlob]
  /\ preLog' = [preLog EXCEPT ![p] = logBlob]
  /\ io' = [io EXCEPT ![p] = noIo]
  /\ cur' = [cur EXCEPT ![p] = NoState]
  /\ new' = [new EXCEPT ![p] = NoState]
  /\ updatedLog' = [updatedLog EXCEPT ![p] = <<>>]
  /\ sha' = [sha EXCEPT ![p] = noSha]
  /\ pending' = [pending EXCEPT ![p] = {}]
  /\ failed' = [failed EXCEPT ![p] = ""]
  /\ LET v == validateAction(a)
     IN  /\ pc' = [pc EXCEPT ![p] = afterValidate(v)]
         /\ result' = [result EXCEPT ![p] =
                         IF v.threw THEN dispatchCatch(v.err)
                         ELSE IF v.val # "true" THEN resultFail("Validation failed: " \o v.val)
                         ELSE resultNone]
  /\ UNCHANGED <<aside, backend, domains, stateBlob, logBlob, faults, okLog>>

\* a call of dispatch, while the bound on their number allows one more
Begin(p, a, u) ==
  /\ started < MaxDispatch
  /\ Call(p, a, u)

throwFromReduce_logFirst(p, err) ==
  /\ Finish(p, dispatchCatch(err))
  /\ logBlob' = writeLogFile(act[p].domain,
                   appendLine(logBlob[act[p].domain].text, logEntry(act[p], ctx[p])))
  /\ UNCHANGED <<new, stateBlob>>

\* executeAction threw: control leaves the try block for the catch block, and
\* saveState is never reached
throwFromReduce(p, err) ==
  /\ Finish(p, dispatchCatch(err))
  /\ UNCHANGED <<new, stateBlob, logBlob>>

\* the read of getState answers; then executeAction; then saveState starts
\* and asks for the log
ReadState(p, outcome) ==
  /\ pc[p] = "read_state"
  /\ ReadAnswers(outcome, stateBlob[act[p].domain].kind # "absent")
  /\ LET d == act[p].domain
         g == getState(d, outcome, stateBlob[d])
         r == executeAction(act[p], g.val, ctx[p])
     IN  /\ cur' = [cur EXCEPT ![p] = g.val]
         /\ io' = [io EXCEPT ![p].reads = @ + 1,
                             ![p].reduces = IF g.ok THEN @ + 1 ELSE @,
                             ![p].loaded = outcome]
         /\ IF ~g.ok THEN /\ Finish(p, dispatchCatch(g.err))
                          /\ UNCHANGED <<new, stateBlob, logBlob>>
            ELSE IF ~r.ok THEN throwFromReduce(p, r.err)
            ELSE /\ Goto(p, "read_log")
                 /\ new' = [new EXCEPT ![p] = r.val]
                 /\ UNCHANGED <<stateBlob, logBlob>>
  /\ UNCHANGED <<aside, backend, domains, act, ctx, updatedLog, sha,
                 pending, failed, preState, preLog, started>>

\* the log read of saveState answers; updatedLog is built; the writes start
ReadLog(p, outcome) ==
  /\ pc[p] = "read_log"
  /\ outcome # "badjson"
  /\ ReadAnswers(outcome, logBlob[act[p].domain].exists)
  /\ io' = [io EXCEPT ![p].reads = @ + 1]
  /\ LET d == act[p].domain
         currentLog == IF outcome = "ok" THEN logBlob[d].text ELSE <<>>
     IN  IF outcome = "eio"
         THEN /\ Finish(p, dispatchCatch("EIO: read failed"))
              /\ UNCHANGED <<updatedLog, pending>>
         ELSE /\ updatedLog' = [updatedLog EXCEPT ![p] =
                                  appendLine(currentLog, logEntry(act[p], ctx[p]))]
              /\ pending' = [pending EXCEPT ![p] =
                               IF backend = "root_local" THEN {"state", "log"} ELSE {}]
              /\ Goto(p, CASE backend = "src_local" -> "write_state"
                           [] backend = "root_local" -> "write_all"
                           [] backend = "root_github" -> "sha_state")
  /\ UNCHANGED <<aside, backend, domains, stateBlob, logBlob, act, ctx, cur, new, sha,
                 failed, preState, preLog, started>>


ConflictError == "Failed to update file: 409 sha mismatch"

acceptsWrite_sinceCall(p, which) ==
  IF which = "state" THEN stateBlob[act[p].domain] = preState[p][act[p].domain]
  ELSE logBlob[act[p].domain] = preLog[p][act[p].domain]

\* Does the content store take the write?  fs.writeFile replaces the file
\* whatever it holds; createOrUpdateFileContents compares the sha it is given.
acceptsWrite(p, which) ==
  IF backend # "root_github" THEN TRUE
  ELSE IF which = "state" THEN shaMatches(sha[p].state, stateBlob[act[p].domain])
  ELSE shaMatches(sha[p].log, logBlob[act[p].domain])

\* src/ tree saveState: await the state write ...
WriteState(p, okw) ==
  /\ pc[p] = "write_state"
  /\ WriteAnswers(okw)
  /\ IF okw /\ acceptsWrite(p, "state")
     THEN /\ stateBlob' = writeStateFile(act[p].domain, new[p])
          /\ io' = [io EXCEPT ![p].stateWrites = @ + 1]
          /\ Goto(p, "write_log")
     ELSE /\ Finish(p, dispatchCatch(IF okw THEN ConflictError ELSE "EIO: write failed"))
          /\ UNCHANGED <<stateBlob, io>>
  /\ UNCHANGED <<aside, backend, domains, logBlob, act, ctx, cur, new, updatedLog, sha,
                 pending, failed, preState, preLog, started>>

\* ... and then await the log write
WriteLog(p, okw) ==
  /\ pc[p] = "write_log"
  /\ WriteAnswers(okw)
  /\ IF okw /\ acceptsWrite(p, "log")
     THEN /\ logBlob' = writeLogFile(act[p].domain, updatedLog[p])
          /\ io' = [io EXCEPT ![p].logWrites = @ + 1]
          /\ Finish(p, resultOk)
     ELSE /\ Finish(p, dispatchCatch(IF okw THEN ConflictError ELSE "EIO: write failed"))
          /\ UNCHANGED <<logBlob, io>>
  /\ UNCHANGED <<aside, backend, domains, stateBlob, act, ctx, cur, new, updatedLog, sha,
                 pending, failed, preState, preLog, started>>

\* root tree, local branch: Promise.all([writeFile(state), writeFile(log)]);
\* both writes are under way and settle one at a time, in either order
WriteAll(p, w, okw) ==
  /\ pc[p] = "write_all"
  /\ w \in pending[p]
  /\ WriteAnswers(okw)
  /\ LET done == okw /\ acceptsWrite(p, w)
         rejection == IF failed[p] # "" THEN failed[p]
                      ELSE IF done THEN ""
                      ELSE IF okw THEN ConflictError ELSE "EIO: write failed"
     IN  /\ stateBlob' = IF done /\ w = "state" THEN writeStateFile(act[p].domain, new[p])
                         ELSE stateBlob
         /\ logBlob' = IF done /\ w = "log" THEN writeLogFile(act[p].domain, updatedLog[p])
                       ELSE logBlob
         /\ io' = [io EXCEPT ![p].stateWrites = IF done /\ w = "state" THEN @ + 1 ELSE @,
                             ![p].logWrites = IF done /\ w = "log" THEN @ + 1 ELSE @]
         /\ failed' = [failed EXCEPT ![p] = rejection]
         /\ pending' = [pending EXCEPT ![p] = @ \ {w}]
         /\ IF pending[p] = {w}
            THEN Finish(p, IF rejection # "" THEN dispatchCatch(rejection) ELSE resultOk)
            ELSE Goto(p, "write_all")
  /\ UNCHANGED <<aside, backend, domains, act, ctx, cur, new, updatedLog, sha,
                 preState, preLog, started>>

\* root tree, GitHub branch: updateFile(statePath) first asks for the sha of
\* the stored file ...
ShaState(p, outcome) ==
  /\ pc[p] = "sha_state"
  /\ outcome # "badjson"
  /\ ReadAnswers(outcome, stateBlob[act[p].domain].kind # "absent")
  /\ io' = [io EXCEPT ![p].reads = @ + 1]
  /\ IF outcome = "eio"
     THEN /\ Finish(p, dispatchCatch("Failed to update file: EIO"))
          /\ sha' = sha
     ELSE /\ sha' = [sha EXCEPT ![p].state = stateBlob[act[p].domain]]
          /\ Goto(p, "put_state")
  /\ UNCHANGED <<aside, backend, domains, stateBlob, logBlob, act, ctx, cur, new, updatedLog,
                 pending, failed, preState, preLog, started>>

\* ... and then creates or updates the file with that sha
PutState(p, okw) ==
  /\ pc[p] = "put_state"
  /\ WriteAnswers(okw)
  /\ IF okw /\ acceptsWrite(p, "state")
     THEN /\ stateBlob' = writeStateFile(act[p].domain, new[p])
          /\ io' = [io EXCEPT ![p].stateWrites = @ + 1]
          /\ Goto(p, "sha_log")
     ELSE /\ Finish(p, dispatchCatch(IF okw THEN ConflictError ELSE "Failed to update file: EIO"))
          /\ UNCHANGED <<stateBlob, io>>
  /\ UNCHANGED <<aside, backend, domains, logBlob, act, ctx, cur, new, updatedLog, sha,
                 pending, failed, preState, preLog, started>>

\* updateFile(logPath): the sha of the stored log ...
ShaLog(p, outcome) ==
  /\ pc[p] = "sha_log"
  /\ outcome # "badjson"
  /\ ReadAnswers(outcome, logBlob[act[p].domain].exists)
  /\ io' = [io EXCEPT ![p].reads = @ + 1]
  /\ IF outcome = "eio"
     THEN /\ Finish(p, dispatchCatch("Failed to update file: EIO"))
          /\ sha' = sha
     ELSE /\ sha' = [sha EXCEPT ![p].log = logBlob[act[p].domain]]
          /\ Goto(p, "put_log")
  /\ UNCHANGED <<aside, backend, domains, stateBlob, logBlob, act, ctx, cur, new, updatedLog,
                 pending, failed, preState, preLog, started>>

\* ... and the write of the log
PutLog(p, okw) ==
  /\ pc[p] = "put_log"
  /\ WriteAnswers(okw)
  /\ IF okw /\ acceptsWrite(p, "log")
     THEN /\ logBlob' = writeLogFile(act[p].domain, updatedLog[p])
          /\ io' = [io EXCEPT ![p].logWrites = @ + 1]
          /\ Finish(p, resultOk)
     ELSE /\ Finish(p, dispatchCatch(IF okw THEN ConflictError ELSE "Failed to update file: EIO"))
          /\ UNCHANGED <<logBlob, io>>
  /\ UNCHANGED <<aside, backend, domains, stateBlob, act, ctx, cur, new, updatedLog, sha,
                 pending, failed, preState, preLog, started>>

\* the process running the dispatch dies (the workflow run is cancelled or
\* the runner is lost); writes not yet settled never happen
Crash(p) ==
  /\ pc[p] # "idle"
  /\ faults < MaxFaults
  /\ faults' = faults + 1
  /\ pc' = [pc EXCEPT ![p] = "idle"]
  /\ result' = [result EXCEPT ![p] = [status |-> "crashed", error |-> ""]]
  /\ pending' = [pending EXCEPT ![p] = {}]
  /\ UNCHANGED <<aside, backend, domains, stateBlob, logBlob, act, ctx, cur, new, updatedLog,
                 sha, failed, io, preState, preLog, started, okLog>>

ReadKinds == {"ok", "notfound", "eio", "badjson"}

\* what a dispatch in flight does next
Steps(p) ==
  \/ \E o \in ReadKinds : ReadState(p, o)
  \/ \E o \in ReadKinds : ReadLog(p, o)
  \/ \E okw \in BOOLEAN : WriteState(p, okw)
  \/ \E okw \in BOOLEAN : WriteLog(p, okw)
  \/ \E w \in {"state", "log"}, okw \in BOOLEAN : WriteAll(p, w, okw)
  \/ \E o \in ReadKinds : ShaState(p, o)
  \/ \E okw \in BOOLEAN : PutState(p, okw)
  \/ \E o \in ReadKinds : ShaLog(p, o)
  \/ \E okw \in BOOLEAN : PutLog(p, okw)

Work(p) ==
  \/ Steps(p)
  \/ Crash(p)

\* Who calls dispatch with action a.  The caller's name reaches the reducer
\* only as CREATE_TEAM's default owner; everywhere else it is copied into the
\* log entry and nothing more, so one caller serves for the other actions.
Callers(a) == IF a.type = CREATE_TEAM THEN Users ELSE {"alice"}

\* the calling environment runs one dispatch at a time
Next ==
  \/ \E a \in DispatchActions : \E u \in Callers(a) : Begin(1, a, u)
  \/ Work(1)

Spec == Init /\ [][Next]_vars

\* no external serialization: a second dispatch may be called while the first
\* is in flight (two workflow runs triggered by two events); the store is
\* healthy and no run dies, so every failure here is the code's own doing
ConcActions ==
  { MkAction(TeamDomain, CREATE_TEAM, Payload(Undefined, "frontend", "FE team", Undefined)),
    MkAction(TeamDomain, ADD_TO_TEAM, Payload("bob", "frontend", Undefined, Undefined)),
    MkAction(TeamDomain, UPDATE_TEAM_DESCRIPTION, Payload(Undefined, "frontend", "Frontend", Undefined)) }

NextConc ==
  \/ \E p \in Procs, a \in ConcActions :
       /\ p = 1 \/ pc[1] # "idle"
       /\ Begin(p, a, "alice")
  \/ \E p \in Procs : Steps(p) /\ faults' = faults

SpecConc == Init /\ [][NextConc]_vars

\* the walk-through of the team-management domain: a team is created, a
\* member is added, added once more, and the team is created once more
Scenario ==
  << MkAction(TeamDomain, CREATE_TEAM, Payload(Undefined, "frontend", "FE team", Undefined)),
     MkAction(TeamDomain, ADD_TO_TEAM, Payload("bob", "frontend", Undefined, Undefined)),
     MkAction(TeamDomain, ADD_TO_TEAM, Payload("bob", "frontend", Undefined, Undefined)),
     MkAction(TeamDomain, CREATE_TEAM, Payload(Undefined, "frontend", "Another team", Undefined)) >>

\* alice dispatches the actions of the walk-through in order, one at a time
NextScenario ==
  \/ /\ started < Len(Scenario)
     /\ Call(1, Scenario[started + 1], "alice")
  \/ Work(1)

SpecScenario == Init /\ [][NextScenario]_vars

\* ------------------------------------------------- reduce, called directly
OwnNames == {"frontend", "backend"}
CallTeams == OwnNames \cup InheritedKeys

\* the users named in payloads of direct calls
Members == Users \cup {"carol"}

\* member lists the reducer builds: no user twice
MemberLists ==
  {<<>>} \cup {<<u>> : u \in Members}
    \cup {m \in Members \X Members : m[1] # m[2]}
    \cup {m \in Members \X Members \X Members : m[1] # m[2] /\ m[1] # m[3] /\ m[2] # m[3]}

\* team objects as CREATE_TEAM builds them and the other actions leave them
TeamValues ==
  [description : {"FE team"}, owner : Users, members : MemberLists, createdAt : {1}]

\* TeamState documents: some of the names are keys of teams
CallStates ==
  UNION { { [schemaVersion |-> 1, data |-> [teams |-> f]] : f \in [S -> TeamValues] } :
          S \in SUBSET OwnNames }

CallActions ==
  { MkAction(TeamDomain, ty, Payload(u, t, Undefined, Undefined)) :
      ty \in {ADD_TO_TEAM, REMOVE_FROM_TEAM}, u \in Members, t \in CallTeams }
  \cup { MkAction(TeamDomain, CREATE_TEAM, Payload(Undefined, t, "New team", o)) :
      t \in CallTeams, o \in {Undefined, "", "bob"} }
  \cup { MkAction(TeamDomain, UPDATE_TEAM_DESCRIPTION, Payload(Undefined, t, "Frontend", Undefined)) :
      t \in CallTeams }
  \cup { MkAction(TeamDomain, "RENAME_TEAM", Payload(Undefined, "frontend", Undefined, Undefined)) }

CallContexts == { MkContext(u, 7) : u \in Users }

InitReduce ==
  /\ backend = "src_local"
  /\ Registered
  /\ NothingDispatched
  /\ registryInitial = initialState
  /\ held = FALSE
  /\ got = NoOutcome
  /\ call \in [state : CallStates, action : CallActions, context : CallContexts]
  /\ input = call.state
  /\ out = NoOutcome
  /\ again = NoOutcome
  /\ chained = NoOutcome
  /\ step = "args"
  /\ NoOthers

dispatching == <<backend, domains, stateBlob, logBlob, pc, act, ctx, cur, new, updatedLog,
                 sha, pending, failed, result, io, preState, preLog, started, faults, okLog>>

inputAfter_push(state, action, context) ==
  IF action.type = ADD_TO_TEAM /\ reduceAdd(state, action, context).ok
  THEN reduceAdd(state, action, context).val
  ELSE state

\* The object passed as state, after the call.  No branch of reduce assigns
\* to state or to anything reached from it: every change is made on fresh
\* objects built by spreading, and filter and the array literal build new arrays.
inputAfter(state, action, context) == state

\* reduce(state, action, context)
Apply ==
  /\ step = "args"
  /\ out' = reduce(call.state, call.action, call.context)
  /\ input' = inputAfter(input, call.action, call.context)
  /\ step' = "applied"
  /\ UNCHANGED <<dispatching, registryInitial, held, got, call, again, chained, others>>

\* the same call once more, on the same state object
ApplyAgain ==
  /\ step = "applied"
  /\ again' = reduce(input, call.action, call.context)
  /\ step' = "again"
  /\ UNCHANGED <<dispatching, registryInitial, held, got, call, input, out, chained, others>>

\* the same action and context applied to the state the first call returned
ApplyChained ==
  /\ step = "again"
  /\ out.ok
  /\ chained' = reduce(out.val, call.action, call.context)
  /\ step' = "chained"
  /\ UNCHANGED <<dispatching, registryInitial, held, got, call, input, out, again, others>>

NextReduce ==
  \/ Apply
  \/ ApplyAgain
  \/ ApplyChained

SpecReduce == InitReduce /\ [][NextReduce]_vars

\* ------------------------------------------ getActionLog, called directly
\* entries as saveState writes them
LogEntries ==
  { logEntry(Scenario[1], MkContext("alice", 1)),
    logEntry(Scenario[2], MkContext("bob", 2)),
    logEntry(Scenario[4], MkContext("alice", 3)) }

MaxLines == 3

\* the text of a log holding the given entries, oldest first
RECURSIVE logText(_)
logText(entries) ==
  IF entries = <<>> THEN <<>>
  ELSE appendLine(logText(SubSeq(entries, 1, Len(entries) - 1)), entries[Len(entries)])

\* logs saveState can have left: absent, or one line per entry
StoredLogs ==
  {AbsentLog} \cup
  UNION { { [exists |-> TRUE, text |-> logText(es)] : es \in [1..n -> LogEntries] } :
          n \in 1..MaxLines }

InitLog ==
  /\ backend \in Backends
  /\ Registered
  /\ stateBlob = [n \in DomainNames |-> AbsentBlob]
  /\ logBlob \in { [n \in DomainNames |-> IF n = TeamDomain THEN l ELSE AbsentLog] :
                    l \in StoredLogs }
  /\ NoDispatch
  /\ NothingAside

\* getActionLog(domain, limit): the read of the log blob answers outcome
CallGetActionLog(limit, outcome) ==
  /\ ReadAnswers(outcome, logBlob[TeamDomain].exists)
  /\ LET r == getActionLog(logBlob[TeamDomain], limit, outcome)
     IN  gotLog' = [called |-> TRUE, limit |-> limit, outcome |-> outcome,
                    before |-> logBlob[TeamDomain], ok |-> r.ok, val |-> r.val]
  /\ UNCHANGED <<backend, domains, stateBlob, logBlob, pc, act, ctx, cur, new, updatedLog,
                 sha, pending, failed, result, io, preState, preLog, started, okLog>>
  /\ UNCHANGED <<registryInitial, held, got, call, input, out, again, chained, step>>
  /\ UNCHANGED <<validated, lastReg, asked, eventVars>>

NextLog ==
  \E limit \in 0..(MaxLines + 1), o \in ReadKinds : CallGetActionLog(limit, o)

SpecLog == InitLog /\ [][NextLog]_vars

\* --------------------------------------- the registry, called directly
InitRegistry ==
  /\ backend = "src_local"
  /\ domains = [n \in DomainNames |-> NoDomain]
  /\ NothingDispatched
  /\ NothingAside

\* a registration that keeps the record a name already has
registerDomain_keepFirst(domainName, domainReducer) ==
  /\ domains' = [domains EXCEPT ![domainName] = IF @ = NoDomain THEN domainReducer ELSE @]
  /\ lastReg' = [called |-> TRUE, name |-> domainName, record |-> domainReducer,
                 before |-> domains]
  /\ UNCHANGED <<backend, stateBlob, logBlob, pc, act, ctx, cur, new, updatedLog,
                 sha, pending, failed, result, io, preState, preLog, started, faults, okLog>>
  /\ UNCHANGED <<registryInitial, held, got, call, input, out, again, chained, step>>
  /\ UNCHANGED <<gotLog, validated, asked, eventVars>>

\* registerDomain(domainName, domainReducer): this.domains.set(...)
registerDomain(domainName, domainReducer) ==
  /\ domains' = [domains EXCEPT ![domainName] = domainReducer]
  /\ lastReg' = [called |-> TRUE, name |-> domainName, record |-> domainReducer,
                 before |-> domains]
  /\ UNCHANGED <<backend, stateBlob, logBlob, pc, act, ctx, cur, new, updatedLog,
                 sha, pending, failed, result, io, preState, preLog, started, faults, okLog>>
  /\ UNCHANGED <<registryInitial, held, got, call, input, out, again, chained, step>>
  /\ UNCHANGED <<gotLog, validated, asked, eventVars>>

\* a caller asks for the initial state of a domain and keeps what it is given
CallGetInitialState(n) ==
  /\ got' = getInitialState(n)
  /\ held' = (held \/ (got'.ok /\ domains[n] = teamManagementReducer))
  /\ asked' = [called |-> TRUE, op |-> "getInitialState", name |-> n,
               record |-> domains[n], answer |-> getInitialState(n)]
  /\ UNCHANGED <<dispatching, registryInitial, call, input, out, again, chained, step>>
  /\ UNCHANGED <<gotLog, validated, lastReg, eventVars>>

\* the action executeAction is called with directly, for a domain name
ExecutedAction(n) ==
  MkAction(n, CREATE_TEAM, Payload(Undefined, "frontend", "FE team", Undefined))

\* executeAction(action, state, context), called directly on the initial state
\* of the domain
CallExecuteAction(a, u) ==
  /\ asked' = [called |-> TRUE, op |-> "executeAction", name |-> a.domain,
               record |-> domains[a.domain],
               answer |-> executeAction(a, initialState, MkContext(u, 1))]
  /\ UNCHANGED <<dispatching, registryInitial, held, got, call, input, out, again, chained, step>>
  /\ UNCHANGED <<gotLog, validated, lastReg, eventVars>>

\* actions handed to validateAction: well-formed ones, and ones with no type,
\* with a field missing, with a field of the wrong type
ValidatedActions ==
  {Scenario[i] : i \in 1..Len(Scenario)} \cup
  { MkAction(TeamDomain, Undefined, Payload(Undefined, Undefined, Undefined, Undefined)),
    MkAction(TeamDomain, REMOVE_FROM_TEAM, Payload("bob", Undefined, Undefined, Undefined)),
    MkAction(TeamDomain, CREATE_TEAM, Payload(Undefined, "frontend", "FE team", NumberVal)),
    MkAction(TeamDomain, UPDATE_TEAM_DESCRIPTION, Payload(Undefined, "frontend", Undefined, Undefined)),
    MkAction("billing", Undefined, Payload(Undefined, Undefined, Undefined, Undefined)) }

\* validateAction(action), called directly
CallValidateAction(a) ==
  /\ LET v == validateAction(a)
     IN  validated' = [called |-> TRUE, action |-> a, registered |-> hasDomain(a.domain),
                       threw |-> v.threw, val |-> v.val, err |-> v.err]
  /\ UNCHANGED <<dispatching, registryInitial, held, got, call, input, out, again, chained, step>>
  /\ UNCHANGED <<gotLog, lastReg, asked, eventVars>>

\* What the registry's object holds after the caller has assigned a team in
\* the object it was given.  getInitialState hands out domain.initialState
\* itself, so the object written to is the registry's.
writeThroughReturned(canonical, t, team) == withTeam(canonical, t, team)

\* the caller changes the value it holds in place: s.data.teams[t] = team
CallerMutates(t, team) ==
  /\ held
  /\ registryInitial' = writeThroughReturned(registryInitial, t, team)
  /\ UNCHANGED <<dispatching, held, got, call, input, out, again, chained, step, others>>

NextRegistry ==
  \/ \E n \in DomainNames, r \in Records : registerDomain(n, r)
  \/ \E n \in DomainNames : CallGetInitialState(n)
  \/ \E n \in DomainNames : CallExecuteAction(ExecutedAction(n), "alice")
  \/ \E a \in ValidatedActions : CallValidateAction(a)
  \/ \E team \in {v \in TeamValues : v.owner = "alice" /\ v.members \in {<<>>, <<"alice">>}} :
       CallerMutates("frontend", team)

SpecRegistry == InitRegistry /\ [][NextRegistry]_vars


\* ====================================================================
\* Properties
\* ====================================================================
\* what a read of the blob answers when the store is healthy
normalStateRead(blob) == IF blob.kind = "absent" THEN "notfound" ELSE "ok"
normalLogRead(blob) == IF blob.exists THEN "ok" ELSE "notfound"

\* the dispatch of p has returned failure because its reduce call threw
ReduceThrew(p) ==
  /\ pc[p] = "idle"
  /\ result[p].status = "fail"
  /\ io[p].reduces = 1
  /\ ~executeAction(act[p], cur[p], ctx[p]).ok

\* C1: no partial writes.  When the reduce call of a dispatch throws, then
\* after the dispatch has returned both blobs of every domain are what they
\* were when it was called: getState answers the pre-dispatch state and
\* getActionLog answers the pre-dispatch entries.
C1_NoPartialWrites ==
  \A p \in Procs : ReduceThrew(p) =>
    LET d == act[p].domain
    IN  /\ stateBlob = preState[p]
        /\ logBlob = preLog[p]
        /\ getState(d, normalStateRead(stateBlob[d]), stateBlob[d])
             = getState(d, normalStateRead(preState[p][d]), preState[p][d])
        /\ getActionLog(logBlob[d], MaxDispatch, normalLogRead(logBlob[d]))
             = getActionLog(preLog[p][d], MaxDispatch, normalLogRead(preLog[p][d]))

C1_Witness ==
  /\ ReduceThrew(1)
  /\ act[1].type = CREATE_TEAM
  /\ result[1].error = "Team frontend already exists"
  /\ stateBlob[TeamDomain].kind = "json"
  /\ logBlob[TeamDomain].exists

\* C2: a dispatch that returned success wrote the state blob once and the log
\* blob once; a dispatch that returned failure wrote neither.
C2_WritesOnlyOnSuccess ==
  \A p \in Procs : pc[p] = "idle" =>
    /\ result[p].status = "ok" => io[p].stateWrites = 1 /\ io[p].logWrites = 1
    /\ result[p].status = "fail" => io[p].stateWrites = 0 /\ io[p].logWrites = 0

\* the entries stored in the log of domain d, oldest first
storedEntries(d) == reverse(parseLog(logBlob[d].text, Len(logBlob[d].text)))

\* C3: with no dispatch in flight, the stored log of a domain holds exactly
\* the entries of the dispatches that returned success, in call order, and
\* getActionLog(domain, k) answers the last min(k, N) of them, newest first.
C3_LogIsSuccessfulDispatches ==
  pc[1] = "idle" =>
    \A d \in DomainNames :
      LET n == Len(okLog[d])
      IN  /\ storedEntries(d) = okLog[d]
          /\ \A k \in 0..(MaxDispatch + 1) :
               getActionLog(logBlob[d], k, normalLogRead(logBlob[d])).val
                 = [i \in 1..(IF k < n THEN k ELSE n) |-> okLog[d][n + 1 - i]]

\* C4: a dispatch that is over and has written its log entry has written the
\* state that entry led to.
C4_NoLogWithoutState ==
  \A p \in Procs : (pc[p] = "idle" /\ io[p].logWrites = 1) => io[p].stateWrites = 1

\* C5: when the read of the state blob fails other than by not-found, the
\* dispatch returns failure (the initial state is not put in its place).
C5_ReadFaultFails ==
  \A p \in Procs : io[p].loaded \in {"eio", "badjson"} =>
    pc[p] = "idle" /\ result[p].status = "fail"

\* C6: with no dispatch in flight, the state blob of a domain is absent as
\* long as no dispatch for that domain has returned success.
C6_AbsentUntilSuccess ==
  pc[1] = "idle" =>
    \A d \in DomainNames : okLog[d] = <<>> => stateBlob[d] = AbsentBlob

\* C7: dispatch never throws: whatever fails inside it, the call ends with
\* { success: false, error } or { success: true, newState }.
C7_NeverThrows ==
  \A p \in Procs :
    /\ result[p].status # "raised"
    /\ (pc[p] = "idle" /\ started > 0 /\ act[p] # NoEntry.action)
         => result[p].status \in {"ok", "fail", "crashed"}
    /\ result[p].status = "fail" => result[p].error # ""

C7_Witness ==
  /\ backend = "src_local"
  /\ pc[1] = "idle"
  /\ io[1].loaded = "eio"
  /\ result[1] = resultFail("EIO: read failed")

\* C8: an action of a registered domain that the action schema rejects makes
\* dispatch return failure with the validation error; the reducer is not
\* called and no blob is read or written.
C8_ValidationFailure ==
  \A p \in Procs :
    (/\ result[p].status # "none"
     /\ domains[act[p].domain] # NoDomain
     /\ TeamActionSchema(act[p]) # "true")
    => /\ pc[p] = "idle"
       /\ result[p] = resultFail("Validation failed: " \o TeamActionSchema(act[p]))
       /\ io[p] = noIo
       /\ stateBlob = preState[p]
       /\ logBlob = preLog[p]

C8_Witness ==
  /\ result[1].status = "fail"
  /\ act[1].type = "RENAME_TEAM"
  /\ stateBlob[TeamDomain].kind = "json"
  /\ io[1] = noIo

\* C9: an action of an unregistered domain makes dispatch return failure with
\* 'Domain <name> not found', no reducer runs and no blob is read or written;
\* executeAction and getInitialState throw the same error for such a name.
C9_UnknownDomainFatal ==
  /\ \A p \in Procs :
       (result[p].status # "none" /\ domains[act[p].domain] = NoDomain)
       => /\ pc[p] = "idle"
          /\ result[p] = resultFail(DomainNotFound(act[p].domain))
          /\ io[p] = noIo
          /\ stateBlob = preState[p]
          /\ logBlob = preLog[p]
  /\ \A n \in DomainNames : domains[n] = NoDomain =>
       /\ getInitialState(n) = Thrown(DomainNotFound(n))
       /\ \A a \in DispatchActions : a.domain = n =>
            executeAction(a, initialState, MkContext("alice", 1)) = Thrown(DomainNotFound(n))

C9_Witness ==
  /\ result[1] = resultFail("Domain billing not found")
  /\ act[1].domain = "billing"
  /\ stateBlob[TeamDomain].kind = "json"

\* both dispatches are over, both returned success, both had loaded the same
\* stored state and each changed it
SameBaseBothOk(p, q) ==
  /\ p # q
  /\ pc[p] = "idle" /\ pc[q] = "idle"
  /\ result[p].status = "ok" /\ result[q].status = "ok"
  /\ io[p].loaded = "ok" /\ io[q].loaded = "ok"
  /\ cur[p] = cur[q]
  /\ new[p] # cur[p] /\ new[q] # cur[q]

\* C10: lost update.  Without external serialization nothing checks that the
\* state a dispatch loaded is still the stored one when it writes: a write is
\* refused as conflicting only by the GitHub backend and only when the file
\* changed after updateFile fetched its sha.  Two dispatches that loaded the
\* same base and both returned success leave the state of one of them.
C10_LostUpdate ==
  /\ [](\A p, q \in Procs : SameBaseBothOk(p, q) =>
          stateBlob[act[p].domain].doc \in {new[p], new[q]})
  /\ [][\A p \in Procs :
          (result'[p].error = ConflictError /\ pc[p] # "idle") =>
            /\ backend = "root_github"
            /\ \/ pc[p] = "put_state" /\ sha[p].state # stateBlob[act[p].domain]
               \/ pc[p] = "put_log" /\ sha[p].log # logBlob[act[p].domain]]_vars

\* dispatch 1 added bob, dispatch 2 changed the description from the same
\* base; both returned success and bob is not in the stored team
C10_Witness ==
  /\ SameBaseBothOk(1, 2)
  /\ act[1].type = ADD_TO_TEAM
  /\ act[2].type = UPDATE_TEAM_DESCRIPTION
  /\ stateBlob[TeamDomain].doc = new[2]
  /\ ~includes(stateBlob[TeamDomain].doc.data.teams["frontend"].members, "bob")

\* the fold of reduce over log entries, oldest first, each entry's username and
\* timestamp serving as the context of its action
RECURSIVE replay(_, _)
replay(entries, state) ==
  IF entries = <<>> THEN Returned(state)
  ELSE LET e == Head(entries)
           r == reduce(state, e.action, MkContext(e.username, e.timestamp))
       IN  IF r.ok THEN replay(Tail(entries), r.val) ELSE r

\* C11: log and state agree.  With dispatches called one at a time and none in
\* flight, replaying the stored log of the team-management domain from the
\* initial state gives the state getState answers.
C11_ReplayGivesState ==
  pc[1] = "idle" =>
    replay(storedEntries(TeamDomain), initialState)
      = getState(TeamDomain, normalStateRead(stateBlob[TeamDomain]), stateBlob[TeamDomain])

\* C12: getInitialState gives a copy of the initial state.  Whatever a caller
\* does to a value it was given, every call of getInitialState for a
\* registered domain answers the initial state the reducer module declares.
C12_InitialStateIsCopy == got.ok => got.val = initialState

\* the dispatch of p was called with an action of the team-management domain
\* whose type is none of the four the reducer recognizes
UnknownType(p) ==
  /\ act[p].domain = TeamDomain
  /\ act[p].type \notin TeamActionTypes

\* C13 as stated: a dispatch of an action of unknown type returns success
\* with the state it loaded as the new state.
C13_UnknownTypeSucceeds ==
  \A p \in Procs : (UnknownType(p) /\ pc[p] = "idle") =>
    result[p].status = "ok" /\ new[p] = cur[p]

\* C13: an action of unknown type is no change and no success.  reduce gives
\* back the state it is handed, but dispatch never gets that far: the action
\* schema rejects the type, dispatch returns failure with the validation
\* error, and nothing is read, reduced or written.
C13_UnknownTypeRejected ==
  \A p \in Procs : UnknownType(p) =>
    /\ pc[p] = "idle"
    /\ result[p] = resultFail("Validation failed: " \o UnknownTypeError)
    /\ io[p] = noIo
    /\ stateBlob = preState[p]
    /\ logBlob = preLog[p]
    /\ reduce(stateBlob[TeamDomain].doc, act[p], ctx[p]) = Returned(stateBlob[TeamDomain].doc)

C13_Witness ==
  /\ UnknownType(1)
  /\ result[1].status = "fail"
  /\ stateBlob[TeamDomain].kind = "json"
  /\ ownTeam(stateBlob[TeamDomain].doc, "frontend")
  /\ Len(stateBlob[TeamDomain].doc.data.teams["frontend"].members) = 2

AlreadyExists(t) == "Team " \o t \o " already exists"

\* C14: creation uniqueness.  CREATE_TEAM naming a team the state already
\* holds makes reduce throw 'Team <name> already exists', whatever description
\* and owner it carries; the dispatch returns that failure and both blobs are
\* what they were when it was called.
C14_CreateExistingFails ==
  /\ \A p \in Procs :
       (/\ pc[p] = "idle"
        /\ io[p].reduces = 1
        /\ act[p].type = CREATE_TEAM
        /\ ownTeam(cur[p], act[p].payload.teamName))
       => /\ result[p] = resultFail(AlreadyExists(act[p].payload.teamName))
          /\ stateBlob = preState[p]
          /\ logBlob = preLog[p]
  /\ \A t \in DOMAIN stateBlob[TeamDomain].doc.data.teams :
       \A o \in {"", "alice"} :
         reduce(stateBlob[TeamDomain].doc,
                MkAction(TeamDomain, CREATE_TEAM, Payload(Undefined, t, "", o)),
                MkContext("bob", started + 1))
           = Thrown(AlreadyExists(t))

\* bob's team is created a second time, by alice with bob as owner
C14_Witness ==
  /\ pc[1] = "idle"
  /\ io[1].reduces = 1
  /\ act[1].type = CREATE_TEAM
  /\ act[1].payload.owner = "bob"
  /\ ctx[1].username = "alice"
  /\ ownTeam(cur[1], "frontend")
  /\ result[1].status = "fail"
  /\ stateBlob[TeamDomain].doc.data.teams["frontend"].description = "Frontend"

\* reduce has been called directly
Called == step # "args" /\ step # "none"

\* teams with the value at key t replaced or added
teamsWith(teams, t, team) ==
  [x \in (DOMAIN teams) \cup {t} |-> IF x = t THEN team ELSE teams[x]]

\* C15: default ownership.  CREATE_TEAM without owner, naming a team the
\* state does not hold, returns a state in which that team has the caller as
\* owner and only member, the given description and the context's timestamp
\* as createdAt, and everything else is as before.
C15_DefaultOwner ==
  LET a == call.action
      t == a.payload.teamName
  IN  (/\ Called
       /\ a.type = CREATE_TEAM
       /\ a.payload.owner = Undefined
       /\ ~ownTeam(call.state, t))
      => /\ out.ok
         /\ out.val.schemaVersion = call.state.schemaVersion
         /\ out.val.data.teams =
              teamsWith(call.state.data.teams, t,
                        [description |-> a.payload.description,
                         owner |-> call.context.username,
                         members |-> <<call.context.username>>,
                         createdAt |-> call.context.timestamp])

\* C16: idempotent membership.  ADD_TO_TEAM of a user the team already holds
\* returns the state it was given, and on any state holding the team a second
\* ADD_TO_TEAM of the same user returns what the first returned.
C16_AddIdempotent ==
  LET a == call.action
      t == a.payload.teamName
      u == a.payload.username
  IN  (a.type = ADD_TO_TEAM /\ ownTeam(call.state, t)) =>
        /\ (Called /\ includes(call.state.data.teams[t].members, u))
             => out = Returned(call.state)
        /\ step = "again" => out.ok
        /\ step = "chained" => chained = out

\* carol is added to a team of alice and bob, twice
C16_Witness ==
  /\ step = "chained"
  /\ call.action.type = ADD_TO_TEAM
  /\ call.action.payload.username = "carol"
  /\ ownTeam(call.state, "frontend")
  /\ call.state.data.teams["frontend"].members = <<"alice", "bob">>
  /\ out.val.data.teams["frontend"].members = <<"alice", "bob", "carol">>
  /\ chained = out

DoesNotExist(t) == "Team " \o t \o " does not exist"

\* C17: ADD_TO_TEAM.  On a state that does not hold the team, reduce throws
\* 'Team <name> does not exist'.  On a state that holds the team without the
\* user, the result differs from the input only in that team's members, which
\* are the old members followed by the user.
C17_AddToTeam ==
  LET a == call.action
      t == a.payload.teamName
      u == a.payload.username
      teams == call.state.data.teams
  IN  (Called /\ a.type = ADD_TO_TEAM) =>
        /\ ~ownTeam(call.state, t) => out = Thrown(DoesNotExist(t))
        /\ (ownTeam(call.state, t) /\ ~includes(teams[t].members, u)) =>
             /\ out.ok
             /\ out.val.schemaVersion = call.state.schemaVersion
             /\ out.val.data.teams =
                  teamsWith(teams, t, [teams[t] EXCEPT !.members = Append(@, u)])

\* after is before with every occurrence of u left out and the rest in the
\* order they had
isWithout(before, after, u) ==
  LET keep == {i \in 1..Len(before) : before[i] # u}
  IN  /\ Len(after) = Cardinality(keep)
      /\ \A i \in keep : after[Cardinality({j \in keep : j <= i})] = before[i]

C19_UpdateDescription ==
  LET a == call.action
      t == a.payload.teamName
      teams == call.state.data.teams
  IN  (Called /\ a.type = UPDATE_TEAM_DESCRIPTION) =>
        /\ ~ownTeam(call.state, t) => ~out.ok
        /\ ownTeam(call.state, t) =>
             /\ out.ok
             /\ out.val.schemaVersion = call.state.schemaVersion
             /\ out.val.data.teams =
                  teamsWith(teams, t, [teams[t] EXCEPT !.description = a.payload.description])

persisted == getState(TeamDomain, normalStateRead(stateBlob[TeamDomain]), stateBlob[TeamDomain]).val

\* the team of the walk-through with the given members
frontendOf(members) ==
  [schemaVersion |-> 1,
   data |-> [teams |-> [t \in {"frontend"} |->
     [description |-> "FE team", owner |-> "alice", members |-> members, createdAt |-> 1]]]]

\* C21: the walk-through.  From the empty store and with a healthy store,
\* alice's CREATE_TEAM of frontend succeeds and leaves the team with alice as
\* owner and only member and the dispatch's timestamp as createdAt; ADD_TO_TEAM
\* of bob succeeds and leaves alice, bob; the same ADD_TO_TEAM again succeeds
\* and leaves the same state; CREATE_TEAM of frontend again returns failure
\* and leaves the same state.
C21_Scenario ==
  (faults = 0 /\ pc[1] = "idle") =>
    /\ started = 0 => persisted = initialState
    /\ started = 1 => /\ result[1] = resultOk
                      /\ ctx[1].timestamp = 1
                      /\ persisted = frontendOf(<<"alice">>)
    /\ started = 2 => /\ result[1] = resultOk
                      /\ persisted = frontendOf(<<"alice", "bob">>)
    /\ started = 3 => /\ result[1] = resultOk
                      /\ new[1] = cur[1]
                      /\ persisted = frontendOf(<<"alice", "bob">>)
    /\ started = 4 => /\ result[1] = resultFail("Team frontend already exists")
                      /\ stateBlob = preState[1]
                      /\ persisted = frontendOf(<<"alice", "bob">>)

C21_Witness ==
  /\ faults = 0
  /\ pc[1] = "idle"
  /\ started = 4
  /\ result[1].status = "fail"
  /\ Len(logBlob[TeamDomain].text) = 6
  /\ stateBlob[TeamDomain].doc.data.teams["frontend"].members = <<"alice", "bob">>

\* C22: saveState appends one entry.  Once a dispatch has written the log,
\* the log of its domain is the text stored when the dispatch was called,
\* followed by one line: the entry made of the dispatched action, the
\* context's timestamp and the context's username.  The earlier lines are the
\* same and in the same places, and no other domain's log is touched.  A
\* dispatch that returned success has written the log.
C22_AppendsOneEntry ==
  \A p \in Procs :
    LET d == act[p].domain
        e == [action |-> act[p], timestamp |-> ctx[p].timestamp, username |-> ctx[p].username]
    IN  /\ (pc[p] = "idle" /\ result[p].status = "ok") => io[p].logWrites = 1
        /\ io[p].logWrites = 1 =>
             /\ logBlob[d].exists
             /\ logBlob[d].text = preLog[p][d].text \o <<[kind |-> "json", entry |-> e], NL>>
             /\ storedEntries(d)
                  = reverse(parseLog(preLog[p][d].text, Len(preLog[p][d].text))) \o <<e>>
             /\ \A n \in DomainNames \ {d} : logBlob[n] = preLog[p][n]

\* the third entry is appended after two
C22_Witness ==
  /\ pc[1] = "idle"
  /\ result[1].status = "ok"
  /\ io[1].logWrites = 1
  /\ Len(storedEntries(TeamDomain)) = 3
  /\ storedEntries(TeamDomain)[3].username = "bob"

\* the entries a log text holds, oldest first, read off its tokens
entriesOf(text) ==
  LET at == {i \in 1..Len(text) : text[i].kind = "json"}
      nth(k) == CHOOSE i \in at : Cardinality({j \in at : j <= i}) = k
  IN  [k \in 1..Cardinality(at) |-> text[nth(k)].entry]

\* C23: getActionLog.  A call that returns gives the empty sequence when the
\* log blob is absent, and otherwise the min(limit, n) newest of the n stored
\* entries, newest first; the call changes neither blob.
C23_GetActionLog ==
  (gotLog.called /\ gotLog.ok) =>
    LET es == entriesOf(gotLog.before.text)
        n == Len(es)
        k == IF gotLog.limit < n THEN gotLog.limit ELSE n
    IN  /\ ~gotLog.before.exists => gotLog.val = <<>>
        /\ gotLog.before.exists => gotLog.val = [i \in 1..k |-> es[n + 1 - i]]
        /\ logBlob[TeamDomain] = gotLog.before
        /\ stateBlob[TeamDomain] = AbsentBlob

\* the payload fields the schema of an action type requires to be strings
requiredFields(type) ==
  CASE type \in {ADD_TO_TEAM, REMOVE_FROM_TEAM} -> {"username", "teamName"}
    [] type \in {CREATE_TEAM, UPDATE_TEAM_DESCRIPTION} -> {"teamName", "description"}
    [] OTHER -> {}

\* the action is one the team-management schema describes
wellFormed(a) ==
  /\ a.domain = TeamDomain
  /\ a.type \in TeamActionTypes
  /\ \A f \in requiredFields(a.type) : a.payload[f] \notin NonStrings
  /\ a.type = CREATE_TEAM => a.payload.owner # NumberVal

\* C24: validateAction does not throw for malformed input.  For an action of
\* a registered domain it returns: true when the action fits the schema, and
\* a validation error when the type is wrong or missing or a payload field is
\* missing or of the wrong type.  It throws only for an unregistered domain,
\* and then 'Domain <name> not found'.
C24_ValidateReturns ==
  validated.called =>
    /\ validated.threw <=> ~validated.registered
    /\ validated.threw => validated.err = DomainNotFound(validated.action.domain)
    /\ validated.registered =>
         /\ wellFormed(validated.action) => validated.val = "true"
         /\ ~wellFormed(validated.action) =>
              validated.val # "true" /\ validated.val # ""

\* an action whose teamName is missing was handed in and a value came back
C24_Witness ==
  /\ validated.called
  /\ validated.registered
  /\ validated.action.type = REMOVE_FROM_TEAM
  /\ validated.action.payload.teamName = Undefined
  /\ ~validated.threw
  /\ validated.val = "ZodError: expected string in payload"

\* C25: an error thrown by the reducer is propagated unchanged.  executeAction
\* gives what reduce gives; the dispatch returns success false with the
\* reducer's own message as its error; and reduce has been called once for
\* the dispatch, never a second time.
C25_ReducerErrorPropagated ==
  \A p \in Procs :
    /\ io[p].reduces <= 1
    /\ ReduceThrew(p) =>
         LET r == reduce(cur[p], act[p], ctx[p])
         IN  /\ ~r.ok
             /\ executeAction(act[p], cur[p], ctx[p]) = r
             /\ result[p] = [status |-> "fail", error |-> r.err]

\* an ADD_TO_TEAM for a team that does not exist came back with the reducer's
\* message
C25_Witness ==
  /\ ReduceThrew(1)
  /\ act[1].type = ADD_TO_TEAM
  /\ ~hasTeam(cur[1], act[1].payload.teamName)
  /\ result[1].error = DoesNotExist(act[1].payload.teamName)

\* what a step that registers, asks for the initial state, executes or
\* validates must have done, given the registrations before it
C26_Step ==
  /\ domains' # domains => lastReg' # lastReg
  /\ lastReg' # lastReg =>
       /\ lastReg'.before = domains
       /\ domains'[lastReg'.name] = lastReg'.record
       /\ \A n \in DomainNames \ {lastReg'.name} : domains'[n] = domains[n]
  /\ asked' # asked =>
       LET n == asked'.name
           r == domains[n]
       IN  /\ asked'.record = r
           /\ (lastReg.called /\ lastReg.name = n) => r = lastReg.record
           /\ r = NoDomain => asked'.answer = Thrown(DomainNotFound(n))
           /\ (r # NoDomain /\ asked'.op = "getInitialState") =>
                asked'.answer = Returned(initialStateOf(r))
           /\ (r # NoDomain /\ asked'.op = "executeAction") =>
                asked'.answer = reduce(initialState, ExecutedAction(n), MkContext("alice", 1))
  /\ validated' # validated =>
       LET a == validated'.action
       IN  /\ validated'.registered = (domains[a.domain] # NoDomain)
           /\ (lastReg.called /\ lastReg.name = a.domain) => validated'.registered
           /\ validated'.registered =>
                ~validated'.threw /\ validated'.val = TeamActionSchema(a)

\* C26: a name has at most one registration.  registerDomain(name, r) makes r
\* the registration of name, whether name had one or not, and leaves every
\* other name's registration as it was; nothing else changes a registration;
\* and a later validateAction, executeAction or getInitialState for name
\* works with r: the schema, the reduce and the initialState object of r.
C26_RegisterReplaces == [][C26_Step]_vars

\* team-management was registered with the module whose initialState a caller
\* had written into, then registered again with the other module, and
\* getInitialState then answered the other module's initial state
C26_Witness ==
  /\ lastReg.called
  /\ lastReg.name = TeamDomain
  /\ lastReg.before[TeamDomain] = teamManagementReducer
  /\ lastReg.record = teamManagementDomain
  /\ registryInitial # initialState
  /\ asked.called
  /\ asked.op = "getInitialState"
  /\ asked.name = TeamDomain
  /\ asked.record = teamManagementDomain
  /\ asked.answer = Returned(initialState)

\* the revision of state.json the getState of dispatch p observed: the blob
\* whose content it parsed, or no blob
observedAtRead(p) ==
  IF io[p].loaded = "notfound" THEN AbsentBlob ELSE stringifyState(cur[p])

\* dispatch p puts state.json in this step and the store takes it
PutsState(p) ==
  /\ backend = "root_github"
  /\ pc[p] = "put_state"
  /\ io'[p].stateWrites = io[p].stateWrites + 1

\* C27: the remote adapter carries the revision of state.json from the read to
\* the write of one dispatch.  The sha sent with the write is the sha of the
\* blob getState read for this dispatch, so whenever the store takes the write
\* the revision it replaces is the one the new state was computed from.
C27_ShaTrackedFromRead ==
  [][\A p \in Procs : PutsState(p) =>
        /\ sha[p].state = observedAtRead(p)
        /\ stateBlob[act[p].domain] = observedAtRead(p)]_vars

\* ====================================================================
\* Event handlers
\* ====================================================================
Variants == {"reaction", "approval"}

\* the login the action's comments are posted under, and the issue's author
Bot == "github-actions[bot]"
IssueAuthor == "alice"

\* A text is modelled by what the handlers look at: whether it is JSON as a
\* whole ("json"), holds a ```json block ("fenced") or neither ("plain"); the
\* JSON value; whether it holds one of the approval words; and the action
\* the LLM makes of it, if any.
NoJson == [tag |-> "none", action |-> NoEntry.action]
ObjectJson(a) == [tag |-> "object", action |-> a]
StateJson == [tag |-> "state", action |-> NoEntry.action]

Text(form, json, approves, intent) ==
  [form |-> form, json |-> json, approves |-> approves, intent |-> intent]

WholeJson(a) == Text("json", ObjectJson(a), FALSE, NoJson)
FencedJson(a) == Text("fenced", ObjectJson(a), FALSE, NoJson)
Request(a) == Text("plain", NoJson, FALSE, ObjectJson(a))
Chat == Text("plain", NoJson, FALSE, NoJson)
Approve == Text("plain", NoJson, TRUE, NoJson)

\* the comments the action posts
Proposal(a) == Text("fenced", ObjectJson(a), TRUE, NoJson)
SuccessText == Text("fenced", StateJson, FALSE, NoJson)
FailureText == Text("plain", NoJson, FALSE, NoJson)
ChatReply == Text("plain", NoJson, FALSE, NoJson)
NothingFound == Text("plain", NoJson, FALSE, NoJson)

\* the texts users write
IssueBodies == {WholeJson(Scenario[1]), Request(Scenario[1]), Chat}
CommentBodies == {FencedJson(Scenario[2]), Approve, Chat}
Reactions == {"+1", "-1"}

\* obj.domain and obj.type are strings and obj.payload is an object
isValidAction(obj) ==
  /\ obj.tag = "object"
  /\ isString(obj.action.domain)
  /\ isString(obj.action.type)

\* JSON.parse of the whole text, else of the first fenced block; null unless
\* the value is a valid action
extractActionDirectly(text) ==
  IF text.form \in {"json", "fenced"} /\ isValidAction(text.json)
  THEN [found |-> TRUE, action |-> text.json.action]
  ELSE [found |-> FALSE, action |-> NoEntry.action]

\* actionDispatcher.dispatch(action, context) from call to return, the store
\* answering every read and taking every write
dispatchWhole(a, c) ==
  LET d == a.domain
      v == validateAction(a)
      unchanged(res) == [res |-> res, state |-> stateBlob, log |-> logBlob]
  IN  IF v.threw THEN unchanged(dispatchCatch(v.err))
      ELSE IF v.val # "true" THEN unchanged(resultFail("Validation failed: " \o v.val))
      ELSE LET g == getState(d, IF stateBlob[d].kind = "absent" THEN "notfound" ELSE "ok",
                             stateBlob[d])
               r == executeAction(a, g.val, c)
           IN  IF ~g.ok THEN unchanged(dispatchCatch(g.err))
               ELSE IF ~r.ok THEN unchanged(dispatchCatch(r.err))
               ELSE [res |-> resultOk,
                     state |-> writeStateFile(d, r.val),
                     log |-> writeLogFile(d, appendLine(logBlob[d].text, logEntry(a, c)))]

Posted(body) == [author |-> Bot, body |-> body]

\* executeAction(action, issue, githubClient) of the entry point: dispatch,
\* then a comment with the outcome.  source is the comment the action was
\* read from, 0 for the issue body.
handlerExecuteAction(a, trigger, source, cs) ==
  LET d == dispatchWhole(a, MkContext(IssueAuthor, events + 1))
  IN  /\ stateBlob' = d.state
      /\ logBlob' = d.log
      /\ dispatches' = Append(dispatches,
                         [action |-> a, event |-> events + 1, trigger |-> trigger,
                          source |-> source, status |-> d.res.status])
      /\ comments' = Append(cs, Posted(IF d.res.status = "ok" THEN SuccessText
                                       ELSE FailureText))

\* a handler that only posts a comment
OnlyPost(cs, body) ==
  /\ comments' = Append(cs, Posted(body))
  /\ UNCHANGED <<stateBlob, logBlob, dispatches>>

\* handleIssueEvent: the same for 'opened' and 'edited'
handleIssueEvent(body) ==
  LET x == extractActionDirectly(body)
  IN  IF x.found THEN handlerExecuteAction(x.action, "issues", 0, comments)
      ELSE IF body.intent.tag = "object" THEN OnlyPost(comments, Proposal(body.intent.action))
      ELSE OnlyPost(comments, ChatReply)

\* handleCommentEvent past the approval branch: a direct action is answered
\* with a request to confirm it, anything else with the LLM's reply
askOrReply(cs, body) ==
  LET x == extractActionDirectly(body)
  IN  IF x.found THEN OnlyPost(cs, Proposal(x.action))
      ELSE OnlyPost(cs, ChatReply)

\* the approval branch: the latest comment of the bot, or with a ```json
\* block, other than the approving comment itself
approvalBranch(cs, id) ==
  LET botComments == {i \in 1..Len(cs) :
                        /\ cs[i].author = Bot \/ cs[i].body.form = "fenced"
                        /\ i # id}
  IN  IF botComments = {} THEN OnlyPost(cs, NothingFound)
      ELSE LET latest == CHOOSE i \in botComments : \A j \in botComments : j <= i
               x == extractActionDirectly(cs[latest].body)
           IN  IF x.found THEN handlerExecuteAction(x.action, "approval", latest, cs)
               ELSE OnlyPost(cs, NothingFound)

\* handleCommentEvent for a comment a user created
handleCommentEvent(cs, id) ==
  IF variant = "approval" /\ cs[id].body.approves THEN approvalBranch(cs, id)
  ELSE askOrReply(cs, cs[id].body)

\* handleReactionEvent; the approval entry point ignores the event
handleReactionEvent(id, content) ==
  LET x == extractActionDirectly(comments[id].body)
  IN  IF /\ variant = "reaction"
         /\ content = "+1"
         /\ comments[id].author = Bot
         /\ x.found
      THEN handlerExecuteAction(x.action, "reaction", id, comments)
      ELSE UNCHANGED <<stateBlob, logBlob, dispatches, comments>>

\* one more event is handled; the handlers touch nothing else
Handled ==
  /\ events < MaxEvents
  /\ events' = events + 1
  /\ UNCHANGED <<backend, domains, pc, act, ctx, cur, new, updatedLog, sha, pending,
                 failed, result, io, preState, preLog, started, faults, okLog>>
  /\ UNCHANGED <<registryInitial, held, got, call, input, out, again, chained, step>>
  /\ UNCHANGED <<gotLog, validated, lastReg, asked, variant>>

IssueOpened(body) ==
  /\ issueBody = NotOpened
  /\ issueBody' = body
  /\ handleIssueEvent(body)
  /\ Handled

\* the issue is edited: the body is replaced, or stays when the title changes
IssueEdited(body) ==
  /\ issueBody # NotOpened
  /\ issueBody' = body
  /\ handleIssueEvent(body)
  /\ Handled

CommentCreated(u, body) ==
  /\ issueBody # NotOpened
  /\ LET cs == Append(comments, [author |-> u, body |-> body])
     IN  handleCommentEvent(cs, Len(cs))
  /\ UNCHANGED issueBody
  /\ Handled

ReactionCreated(id, content) ==
  /\ issueBody # NotOpened
  /\ id \in 1..Len(comments)
  /\ handleReactionEvent(id, content)
  /\ UNCHANGED issueBody
  /\ Handled

InitEvents ==
  /\ backend = "root_github"
  /\ Registered
  /\ NothingDispatched
  /\ NoDirectCalls
  /\ NoCalls
  /\ variant \in Variants
  /\ NoEvents

NextEvents ==
  \/ \E body \in IssueBodies : IssueOpened(body)
  \/ \E body \in IssueBodies : IssueEdited(body)
  \/ \E body \in CommentBodies : CommentCreated(IssueAuthor, body)
  \/ \E id \in 1..(2 * MaxEvents), content \in Reactions : ReactionCreated(id, content)

SpecEvents == InitEvents /\ [][NextEvents]_vars

\* two calls of dispatch were made for one proposal: the same action read
\* from the same place
SameProposal(i, j) ==
  /\ dispatches[i].source = dispatches[j].source
  /\ dispatches[i].action = dispatches[j].action

\* C28: a proposed action is dispatched at most once.  Over any sequence of
\* events no two calls of dispatch are for the same proposal: not after a
\* second thumbs-up on the bot's comment, not after a second approval
\* comment, not after an 'edited' event on an issue whose body is an action.
C28_DispatchedAtMostOnce ==
  \A i, j \in 1..Len(dispatches) : SameProposal(i, j) => i = j

\* C29: an action is applied only after the user has confirmed it.  Every
\* call of dispatch is made by the handler of a confirmation event, a
\* thumbs-up on the bot's proposal or an approval comment, and never by the
\* handler of the event that first presented the action.
C29_ConfirmedBeforeDispatch ==
  \A i \in 1..Len(dispatches) :
    /\ dispatches[i].trigger \in {"reaction", "approval"}
    /\ dispatches[i].source # 0

\* the state persisted for a domain when dispatch p was called: the document
\* of the blob, the initial state when there was no blob
persistedBefore(p) ==
  LET b == preState[p][act[p].domain]
  IN  IF b.kind = "absent" THEN initialState ELSE b.doc

\* C30: a dispatch that returns success leaves reduce(S, action, context) as
\* the persisted state of its domain, S being the state persisted when it was
\* called, and the initial state only if no blob existed.  So a persisted
\* state is never replaced by one computed from the initial state, whatever
\* the read of the blob answers.
C30_SuccessBuildsOnPersisted ==
  \A p \in Procs : (pc[p] = "idle" /\ result[p].status = "ok") =>
    LET r == reduce(persistedBefore(p), act[p], ctx[p])
    IN  /\ r.ok
        /\ stateBlob[act[p].domain] = stringifyState(r.val)

\* no username is at two places of a members sequence
noDuplicates(members) ==
  \A i, j \in 1..Len(members) : members[i] = members[j] => i = j

\* every team of a state that has members has each of them once
setLike(state) ==
  \A t \in DOMAIN state.data.teams :
    "members" \in DOMAIN state.data.teams[t] => noDuplicates(state.data.teams[t].members)

\* C31: members are set-like.  In every state the dispatches reach from the
\* initial state, the persisted state of each domain and the state each
\* successful dispatch returns hold no team whose members name a user twice.
C31_MembersSetLike ==
  /\ \A d \in DomainNames : stateBlob[d].kind # "absent" => setLike(stateBlob[d].doc)
  /\ \A p \in Procs : result[p].status = "ok" => setLike(new[p])

\* an ADD_TO_TEAM for a user who was a member already has returned success,
\* and the persisted team has its two members
C31_Witness ==
  /\ pc[1] = "idle"
  /\ result[1].status = "ok"
  /\ act[1].type = ADD_TO_TEAM
  /\ hasMembers(cur[1], "frontend")
  /\ includes(cur[1].data.teams["frontend"].members, act[1].payload.username)
  /\ stateBlob[TeamDomain].kind # "absent"
  /\ Len(stateBlob[TeamDomain].doc.data.teams["frontend"].members) = 2

\* C32: the written state round-trips.  After a dispatch has returned success
\* and before another is called, getState for its domain, the store answering
\* the read, returns a value equal to the newState of the result.
C32_GetStateGivesNewState ==
  \A p \in Procs : (pc[p] = "idle" /\ result[p].status = "ok") =>
    LET d == act[p].domain
        g == getState(d, normalStateRead(stateBlob[d]), stateBlob[d])
    IN  /\ stateBlob[d].kind = "json"
        /\ g = Returned(new[p])

\* a dispatch has returned success with a state that holds a team with
\* members, and that is the document stored
C32_Witness ==
  /\ pc[1] = "idle"
  /\ result[1].status = "ok"
  /\ hasMembers(new[1], "frontend")
  /\ Len(new[1].data.teams["frontend"].members) = 2
  /\ stateBlob[TeamDomain].doc = new[1]

\* C33: an owner the schema accepts is the owner.  CREATE_TEAM for a team the
\* state does not hold, with an owner in its payload that is a string, the
\* empty string included, returns a state in which the team's owner is that
\* string and its members are that string alone; the caller becomes the owner
\* only when the payload has no owner.
C33_GivenOwnerIsOwner ==
  LET a == call.action
      t == a.payload.teamName
      o == a.payload.owner
  IN  (/\ Called
       /\ a.type = CREATE_TEAM
       /\ TeamActionSchema(a) = "true"
       /\ ~ownTeam(call.state, t))
      => /\ out.ok
         /\ ownTeam(out.val, t)
         /\ out.val.data.teams[t].owner = (IF o = Undefined THEN call.context.username ELSE o)
         /\ out.val.data.teams[t].members =
              <<IF o = Undefined THEN call.context.username ELSE o>>

\* the identity fields of a team: each is absent in both or the same in both
sameIdentity(before, after) ==
  \A k \in {"owner", "createdAt"} :
    /\ k \in DOMAIN before <=> k \in DOMAIN after
    /\ k \in DOMAIN before => after[k] = before[k]

\* C34: a team is permanent and its identity is frozen.  When reduce succeeds
\* on a state that holds team T, the result holds T with the owner and the
\* createdAt it had, also when REMOVE_FROM_TEAM takes T's owner out of the
\* members; and the result has the schemaVersion of the state.
C34_TeamPermanentIdentityFrozen ==
  (Called /\ out.ok) =>
    /\ out.val.schemaVersion = call.state.schemaVersion
    /\ \A t \in DOMAIN call.state.data.teams :
         /\ ownTeam(out.val, t)
         /\ sameIdentity(call.state.data.teams[t], out.val.data.teams[t])

\* REMOVE_FROM_TEAM has taken the owner of a team out of its members, and the
\* team is still there with that owner
C34_Witness ==
  LET a == call.action
      t == a.payload.teamName
  IN  /\ Called
      /\ out.ok
      /\ a.type = REMOVE_FROM_TEAM
      /\ ownTeam(call.state, t)
      /\ call.state.data.teams[t].owner = a.payload.username
      /\ includes(call.state.data.teams[t].members, a.payload.username)
      /\ ownTeam(out.val, t)
      /\ out.val.data.teams[t].owner = a.payload.username
      /\ ~includes(out.val.data.teams[t].members, a.payload.username)

\* ====================================================================
\* Two registered domains
\* ====================================================================
\* what the repository holds for the second domain: a state document and a
\* log of one line
OtherState ==
  withTeam(initialState, "backend",
           [description |-> "BE team", owner |-> "bob", members |-> <<"bob">>, createdAt |-> 1])

OtherLog == [exists |-> TRUE, text |-> logText(<<logEntry(Scenario[1], MkContext("bob", 1))>>)]

\* both names are registered, and the second domain has its two blobs
InitIsolation ==
  /\ backend \in Backends
  /\ domains = [n \in DomainNames |->
                  IF n = TeamDomain THEN teamManagementReducer ELSE teamManagementDomain]
  /\ stateBlob = [n \in DomainNames |->
                    IF n = TeamDomain THEN AbsentBlob ELSE stringifyState(OtherState)]
  /\ logBlob = [n \in DomainNames |-> IF n = TeamDomain THEN AbsentLog ELSE OtherLog]
  /\ NoDispatch
  /\ NothingAside

SpecIsolation == InitIsolation /\ [][Next]_vars

\* C35: domain isolation.  A dispatch for a domain, whether it returns success
\* or failure or is still in flight, leaves the state blob and the log blob
\* of every other registered domain as they were when it was called.
C35_DomainIsolation ==
  \A p \in Procs : act[p] # NoEntry.action =>
    \A B \in DomainNames \ {act[p].domain} :
      hasDomain(B) =>
        /\ stateBlob[B] = preState[p][B]
        /\ logBlob[B] = preLog[p][B]

\* a dispatch for team-management has written its state and its log and
\* returned success, and the blobs of the other domain are the ones it had
C35_Witness ==
  /\ pc[1] = "idle"
  /\ result[1].status = "ok"
  /\ act[1].domain = TeamDomain
  /\ io[1].stateWrites = 1
  /\ io[1].logWrites = 1
  /\ hasDomain("billing")
  /\ stateBlob["billing"] = stringifyState(OtherState)
  /\ logBlob["billing"] = OtherLog
  /\ logBlob[TeamDomain].exists

====
